---- MODULE Spec2Model ----
(***************************************************************************)
(* TortoiseUserDatabase (fastapi_users/db/tortoise.py): the user table,    *)
(* the OAuth account table and the adapter's seven operations.             *)
(*                                                                         *)
(* Strings whose letter case matters (email, username, oauth_name,         *)
(* account_id) are sequences of one-letter strings, so that upper-casing   *)
(* is computed and not assumed.  A table is the set of its rows.           *)
(***************************************************************************)
EXTENDS Naturals, Sequences, FiniteSets, TLC

VARIABLES users, oauth, identitySupport, last, calls, base, overlap

vars == <<users, oauth, identitySupport, last, calls, base, overlap>>

(***************************************************************************)
(* Bounds and input domains                                                *)
(***************************************************************************)
\* the most OAuth accounts a caller passes with one user
MaxAccounts == 2

\* Python's None, and an Optional value that is present
None == <<>>
Some(x) == <<x>>

UserIds == {"U1", "U2"}
\* two emails that differ in case only, two usernames that differ in more
Emails == {<<"a", "@", "x">>, <<"A", "@", "x">>}
Usernames == {<<"a", "l">>, <<"b", "o">>}
\* the keys the lookups are called with: the stored values, another casing,
\* and a value that none stores
LookupEmails == Emails \cup {<<"b", "@", "x">>}
LookupUsernames == Usernames \cup {<<"A", "l">>, <<"c", "y">>}
\* hashed_password, is_active, is_superuser, is_verified as callers pass them
Profiles ==
    { [hashed_password |-> "h1", is_active |-> TRUE,  is_superuser |-> FALSE, is_verified |-> FALSE],
      [hashed_password |-> "h2", is_active |-> FALSE, is_superuser |-> TRUE,  is_verified |-> TRUE] }

OAuthNames == {<<"g">>, <<"G">>}
AccountIds == {<<"x">>, <<"X">>}
\* the OAuth accounts callers pass: two with the same (oauth_name, account_id)
\* and different ids, two with the same id and different names
OAuthInputs ==
    { [id |-> p[1], oauth_name |-> p[2], account_id |-> p[3], access_token |-> p[4],
       expires_at |-> p[5], refresh_token |-> p[6], account_email |-> <<"a", "@", "x">>] :
        p \in { << "O1", <<"g">>, <<"x">>, "t1", None, None >>,
                << "O2", <<"g">>, <<"x">>, "t1", None, None >>,
                << "O2", <<"G">>, <<"X">>, "t2", Some(7), Some("r2") >> } }

\* oauth_accounts is a list; the rows it becomes do not depend on its order,
\* so it is the set of its entries
AccountLists == { l \in SUBSET OAuthInputs : Cardinality(l) <= MaxAccounts }

\* the UD values handed to create, update and delete; oauth_accounts is None
\* when the user model has no such field, Some(list) when it has
UserInputs ==
    { [id |-> i, email |-> e, username |-> n,
       hashed_password |-> p.hashed_password, is_active |-> p.is_active,
       is_superuser |-> p.is_superuser, is_verified |-> p.is_verified,
       oauth_accounts |-> a] :
        i \in UserIds, e \in Emails, n \in Usernames, p \in Profiles,
        a \in {None} \cup { Some(l) : l \in AccountLists } }

(***************************************************************************)
(* Letter case                                                             *)
(***************************************************************************)
UpperChar(c) ==
    CASE c = "a" -> "A"
      [] c = "b" -> "B"
      [] c = "g" -> "G"
      [] c = "c" -> "C"
      [] c = "l" -> "L"
      [] c = "o" -> "O"
      [] c = "y" -> "Y"
      [] c = "x" -> "X"
      [] OTHER -> c

Upper(s) == [i \in DOMAIN s |-> UpperChar(s[i])]

\* field__iexact=value
IExact(field, value) == Upper(field) = Upper(value)

(***************************************************************************)
(* Conversions between the pydantic user and the ORM rows                  *)
(***************************************************************************)
\* user_dict = user.dict(); oauth_accounts = user_dict.pop("oauth_accounts", None)
oauth_accounts_of(user) == user.oauth_accounts

\* `if oauth_accounts`: None and the empty list are both falsy
Truthy(accounts) == accounts # None /\ accounts[1] # {}

\* ModelRow that leaves is_active to the column's default=True
ModelRow_default_active(user) ==
    [id |-> user.id, email |-> user.email, hashed_password |-> user.hashed_password,
     is_active |-> TRUE, is_superuser |-> user.is_superuser,
     is_verified |-> user.is_verified, username |-> user.username]

\* self.model(**user_dict)
ModelRow(user) ==
    [id |-> user.id, email |-> user.email, hashed_password |-> user.hashed_password,
     is_active |-> user.is_active, is_superuser |-> user.is_superuser,
     is_verified |-> user.is_verified, username |-> user.username]

\* self.oauth_account_model(user=model, **oauth_account)
OAuthRow(user_id, account) ==
    [id |-> account.id, user_id |-> user_id, oauth_name |-> account.oauth_name,
     access_token |-> account.access_token, expires_at |-> account.expires_at,
     refresh_token |-> account.refresh_token, account_id |-> account.account_id,
     account_email |-> account.account_email]

OAuthRows(user_id, accounts) == { OAuthRow(user_id, a) : a \in accounts }

\* one prefetched oauth_accounts row as the pydantic model shows it
OAuthAccountOf(row) ==
    [id |-> row.id, oauth_name |-> row.oauth_name, account_id |-> row.account_id,
     access_token |-> row.access_token, expires_at |-> row.expires_at,
     refresh_token |-> row.refresh_token, account_email |-> row.account_email]

\* the rows prefetch_related("oauth_accounts") attaches to a user
prefetch_related(st, user_id) == { o \in st.oauth : o.user_id = user_id }

\* user_db_model.from_tortoise_orm(user): the linked accounts come back in no
\* specified order, so the returned collection is the set of them
from_tortoise_orm(st, row, support) ==
    [id |-> row.id, email |-> row.email, username |-> row.username,
     hashed_password |-> row.hashed_password, is_active |-> row.is_active,
     is_superuser |-> row.is_superuser, is_verified |-> row.is_verified,
     oauth_accounts |->
        IF support THEN Some({ OAuthAccountOf(o) : o \in prefetch_related(st, row.id) })
        ELSE None]

(***************************************************************************)
(* Storage statements.  st is the store [users, oauth]; a statement gives  *)
(* [st, err], err = "" when it succeeded.                                  *)
(***************************************************************************)
\* id is the primary key; email and username are unique=True: the constraint
\* compares the stored values as they are, letter case included
UniqueViolation(rows, row) ==
    \E u \in rows : u.id # row.id /\ (u.email = row.email \/ u.username = row.username)

\* model.save() of a new instance: INSERT
InsertUser(st, row) ==
    IF (\E u \in st.users : u.id = row.id) \/ UniqueViolation(st.users, row)
    THEN [st |-> st, err |-> "IntegrityError"]
    ELSE [st |-> [st EXCEPT !.users = @ \cup {row}], err |-> ""]

\* UpdateUser whose UPDATE has lost its WHERE id = pk
UpdateUser_every_row(st, row) ==
    IF UniqueViolation(st.users, row)
    THEN [st |-> st, err |-> "IntegrityError"]
    ELSE [st |-> [st EXCEPT !.users = { [row EXCEPT !.id = u.id] : u \in @ }],
          err |-> ""]

\* model.save() of a fetched instance: UPDATE ... WHERE id = pk
UpdateUser(st, row) ==
    IF UniqueViolation(st.users, row)
    THEN [st |-> st, err |-> "IntegrityError"]
    ELSE [st |-> [st EXCEPT !.users =
                    { IF u.id = row.id THEN row ELSE u : u \in @ }],
          err |-> ""]

\* DeleteOAuthAccounts as oauth_account_model.all().delete(): every user's rows
DeleteOAuthAccounts_of_everyone(st, user_id) == [st EXCEPT !.oauth = {}]

\* model.oauth_accounts.all().delete()
DeleteOAuthAccounts(st, user_id) ==
    [st EXCEPT !.oauth = { o \in @ : o.user_id # user_id }]

\* oauth_account_model.bulk_create(objects): one statement, all rows or none
bulk_create(st, rows) ==
    IF \/ \E r \in rows : \E o \in st.oauth : o.id = r.id
       \/ \E r, q \in rows : r # q /\ r.id = q.id
       \/ \E r \in rows : ~ \E u \in st.users : u.id = r.user_id
    THEN [st |-> st, err |-> "IntegrityError"]
    ELSE [st |-> [st EXCEPT !.oauth = @ \cup rows], err |-> ""]

\* the foreign key of an OAuth account to its user deletes with the user
Cascade(st, user_id) ==
    [st EXCEPT !.oauth = { o \in @ : o.user_id # user_id }]

\* self.model.filter(id=user.id).delete()
DeleteUser(st, user_id) ==
    Cascade([st EXCEPT !.users = { u \in @ : u.id # user_id }], user_id)

(***************************************************************************)
(* The writing operations, one step per awaited storage statement.         *)
(* A call is [op, user, pc, outcome, ret]; outcome is "" while it runs,    *)
(* "ok" when it returned ret, else the exception that reached the caller.  *)
(***************************************************************************)
Raise(c, exception) == [c EXCEPT !.pc = "done", !.outcome = exception]

Return(c, value) == [c EXCEPT !.pc = "done", !.outcome = "ok", !.ret = value]

Goto(c, pc) == [c EXCEPT !.pc = pc]

\* the bulk_create that ends create and update
bulk_create_step(c, st) ==
    LET accounts == oauth_accounts_of(c.user)[1]
        r == bulk_create(st, OAuthRows(c.user.id, accounts))
    IN  IF r.err # "" THEN [c |-> Raise(c, r.err), st |-> st]
        ELSE [c |-> Return(c, Some(c.user)), st |-> r.st]

create(c, st, support) ==
    IF c.pc = "save"
    THEN LET r == InsertUser(st, ModelRow(c.user))
         IN  IF r.err # "" THEN [c |-> Raise(c, r.err), st |-> st]
             ELSE IF Truthy(oauth_accounts_of(c.user)) /\ support
                  THEN [c |-> Goto(c, "bulk_create"), st |-> r.st]
                  ELSE [c |-> Return(c, Some(c.user)), st |-> r.st]
    ELSE bulk_create_step(c, st)

\* update_get with DoesNotExist caught and None returned, as the lookups do
update_get_caught(c, st) ==
    IF \E u \in st.users : u.id = c.user.id
    THEN [c |-> Goto(c, "save"), st |-> st]
    ELSE [c |-> Return(c, None), st |-> st]

\* model = await self.model.get(id=user.id): DoesNotExist is not caught
update_get(c, st) ==
    IF \E u \in st.users : u.id = c.user.id
    THEN [c |-> Goto(c, "save"), st |-> st]
    ELSE [c |-> Raise(c, "DoesNotExist"), st |-> st]

update(c, st, support) ==
    CASE c.pc = "get" -> update_get(c, st)
      [] c.pc = "save" ->
            LET r == UpdateUser(st, ModelRow(c.user))
            IN  IF r.err # "" THEN [c |-> Raise(c, r.err), st |-> st]
                ELSE IF Truthy(oauth_accounts_of(c.user)) /\ support
                     THEN [c |-> Goto(c, "delete_oauth"), st |-> r.st]
                     ELSE [c |-> Return(c, Some(c.user)), st |-> r.st]
      [] c.pc = "delete_oauth" ->
            [c |-> Goto(c, "bulk_create"), st |-> DeleteOAuthAccounts(st, c.user.id)]
      [] OTHER -> bulk_create_step(c, st)

\* delete that filters on the email of its argument instead of the id
delete_by_email(c, st) ==
    [c |-> Return(c, None),
     st |-> [st EXCEPT !.users = { u \in @ : u.email # c.user.email }]]

delete(c, st) ==
    [c |-> Return(c, None), st |-> DeleteUser(st, c.user.id)]

WriteOps == {"create", "update", "delete"}

FirstPc(op) == CASE op = "create" -> "save" [] op = "update" -> "get" [] OTHER -> "delete"

NewCall(op, user) == [op |-> op, user |-> user, pc |-> FirstPc(op), outcome |-> "", ret |-> None]

Step(c, st, support) ==
    CASE c.op = "create" -> create(c, st, support)
      [] c.op = "update" -> update(c, st, support)
      [] OTHER -> delete(c, st)

\* a call run from its first statement to its return or exception, alone
RECURSIVE Run(_, _, _)
Run(c, st, support) ==
    IF c.pc = "done" THEN [c |-> c, st |-> st]
    ELSE LET n == Step(c, st, support) IN Run(n.c, n.st, support)

(***************************************************************************)
(* The lookups.  Each gives the set of results [outcome, ret] the call can *)
(* end with: outcome "ok" and the value returned, or the exception raised. *)
(***************************************************************************)
Returned(value) == [outcome |-> "ok", ret |-> value]

Raised(exception) == [outcome |-> exception, ret |-> None]

\* get without its except clause
get_uncaught(st, id, support) ==
    LET rows == { u \in st.users : u.id = id }
    IN  IF rows = {} THEN {Raised("DoesNotExist")}
        ELSE { Returned(Some(from_tortoise_orm(st, u, support))) : u \in rows }

\* self.model.get(id=id), DoesNotExist caught and turned into None
get(st, id, support) ==
    LET rows == { u \in st.users : u.id = id }
    IN  IF rows = {} THEN {Returned(None)}
        ELSE { Returned(Some(from_tortoise_orm(st, u, support))) : u \in rows }

\* get_by_email with filter(email=email)
get_by_email_exact(st, email, support) ==
    LET rows == { u \in st.users : u.email = email }
    IN  IF rows = {} THEN {Returned(None)}
        ELSE { Returned(Some(from_tortoise_orm(st, u, support))) : u \in rows }

\* self.model.filter(email__iexact=email).first(): no ordering is asked for,
\* so any one of the matching rows
get_by_email(st, email, support) ==
    LET rows == { u \in st.users : IExact(u.email, email) }
    IN  IF rows = {} THEN {Returned(None)}
        ELSE { Returned(Some(from_tortoise_orm(st, u, support))) : u \in rows }

get_by_username(st, username, support) ==
    LET rows == { u \in st.users : IExact(u.username, username) }
    IN  IF rows = {} THEN {Returned(None)}
        ELSE { Returned(Some(from_tortoise_orm(st, u, support))) : u \in rows }

\* OAuthMatches with oauth_accounts__oauth_name__iexact
OAuthMatches_iexact(st, oauth_name, account_id) ==
    { o \in st.oauth : IExact(o.oauth_name, oauth_name) /\ o.account_id = account_id }

\* the rows of the join of users with oauth_accounts that the filter keeps
OAuthMatches(st, oauth_name, account_id) ==
    { o \in st.oauth : o.oauth_name = oauth_name /\ o.account_id = account_id }

\* self.model.get(oauth_accounts__oauth_name=..., oauth_accounts__account_id=...)
\* with the accounts prefetched: one joined row is the user, none is
\* DoesNotExist (caught), more than one is MultipleObjectsReturned (not caught);
\* a user model without the oauth_accounts relation has no such filter
get_by_oauth_account(st, oauth_name, account_id, support) ==
    LET m == OAuthMatches(st, oauth_name, account_id)
    IN  IF ~support THEN {Raised("FieldError")}
        ELSE IF m = {} THEN {Returned(None)}
        ELSE IF Cardinality(m) > 1 THEN {Raised("MultipleObjectsReturned")}
        ELSE { Returned(Some(from_tortoise_orm(st, u, support))) :
                 u \in { x \in st.users : \E o \in m : o.user_id = x.id } }

(***************************************************************************)
(* The sequential specification: one call at a time, each run to its end.  *)
(* last is the most recent call: its operation, its key (the id, email,    *)
(* username or (oauth_name, account_id) it was given), how it ended and    *)
(* what it returned.                                                       *)
(***************************************************************************)
Store == [users |-> users, oauth |-> oauth]

NoCalls == <<>>

Init ==
    /\ users = {}
    /\ oauth = {}
    /\ identitySupport \in BOOLEAN
    /\ last = [op |-> "init", key |-> None, outcome |-> "ok", ret |-> None]
    /\ calls = NoCalls
    /\ base = [users |-> {}, oauth |-> {}]
    /\ overlap = FALSE

Write(op, user) ==
    LET r == Run(NewCall(op, user), Store, identitySupport)
    IN  /\ users' = r.st.users
        /\ oauth' = r.st.oauth
        /\ last' = [op |-> op, key |-> user.id, outcome |-> r.c.outcome, ret |-> r.c.ret]
        /\ UNCHANGED <<identitySupport, calls, base, overlap>>

Create == calls = NoCalls /\ \E user \in UserInputs : Write("create", user)

Update == calls = NoCalls /\ \E user \in UserInputs : Write("update", user)

\* delete reads nothing of its argument but the id
Delete ==
    /\ calls = NoCalls
    /\ \E id \in UserIds :
          Write("delete", CHOOSE user \in UserInputs : user.id = id)

Lookup(op, key, r) ==
    /\ last' = [op |-> op, key |-> key, outcome |-> r.outcome, ret |-> r.ret]
    /\ UNCHANGED <<users, oauth, identitySupport, calls, base, overlap>>

Get ==
    /\ calls = NoCalls
    /\ \E id \in UserIds : \E r \in get(Store, id, identitySupport) :
          Lookup("get", id, r)

GetByEmail ==
    /\ calls = NoCalls
    /\ \E email \in LookupEmails : \E r \in get_by_email(Store, email, identitySupport) :
          Lookup("get_by_email", email, r)

GetByUsername ==
    /\ calls = NoCalls
    /\ \E username \in LookupUsernames :
          \E r \in get_by_username(Store, username, identitySupport) :
             Lookup("get_by_username", username, r)

GetByOAuthAccount ==
    /\ calls = NoCalls
    /\ \E oauth_name \in OAuthNames, account_id \in AccountIds :
          \E r \in get_by_oauth_account(Store, oauth_name, account_id, identitySupport) :
             Lookup("get_by_oauth_account", <<oauth_name, account_id>>, r)

Next ==
    \/ Create
    \/ Update
    \/ Delete
    \/ Get
    \/ GetByEmail
    \/ GetByUsername
    \/ GetByOAuthAccount

Spec == Init /\ [][Next]_vars

(***************************************************************************)
(* Properties of the sequential specification                              *)
(***************************************************************************)
Ids(rows) == { u.id : u \in rows }

Scalars(u) ==
    [id |-> u.id, email |-> u.email, username |-> u.username,
     hashed_password |-> u.hashed_password, is_active |-> u.is_active,
     is_superuser |-> u.is_superuser, is_verified |-> u.is_verified]

SameIgnoringCase(a, b) ==
    /\ Len(a) = Len(b)
    /\ \A i \in 1..Len(a) : UpperChar(a[i]) = UpperChar(b[i])

OwnedBy(rows, id) == { o \in rows : o.user_id = id }

\* C1: once create(r) has returned, get(r.id) returns a record whose id,
\* email, username, hashed password, is_active, is_superuser and is_verified
\* are those of r.
C1_RoundTrip ==
    (last.op = "create" /\ last.outcome = "ok") =>
        \A g \in get(Store, last.key, identitySupport) :
            /\ g.outcome = "ok"
            /\ g.ret # None
            /\ Scalars(g.ret[1]) = Scalars(last.ret[1])

C1_Witness ==
    /\ last.op = "create"
    /\ last.outcome = "ok"
    /\ Cardinality(users) = 2
    /\ last.ret[1].is_active = FALSE

\* C2: after a successful update(r) on a store built with identity support,
\* where r carries an identity set S of any size, get(r.id) returns exactly
\* the identities of S.
C2_UpdateReplacesIdentities ==
    (/\ identitySupport
     /\ last.op = "update"
     /\ last.outcome = "ok"
     /\ last.ret[1].oauth_accounts # None) =>
        \A g \in get(Store, last.key, identitySupport) :
            /\ g.ret # None
            /\ g.ret[1].oauth_accounts = last.ret[1].oauth_accounts

\* C3: update(r) when no user has the id r.id ends in DoesNotExist at the
\* caller and leaves both tables as they were.
C3_UpdateMissingRaises ==
    [][(last'.op = "update" /\ last'.key \notin Ids(users)) =>
          /\ last'.outcome = "DoesNotExist"
          /\ users' = users
          /\ oauth' = oauth]_vars

C3_Witness ==
    /\ last.op = "update"
    /\ last.outcome = "DoesNotExist"
    /\ users # {}
    /\ oauth # {}

\* what every lookup gives for a user id in a store: TRUE when none returns it
NeverReturned(st, id, support) ==
    /\ \A g \in get(st, id, support) : g = Returned(None)
    /\ \A e \in LookupEmails : \A g \in get_by_email(st, e, support) :
          g.ret = None \/ g.ret[1].id # id
    /\ \A n \in LookupUsernames : \A g \in get_by_username(st, n, support) :
          g.ret = None \/ g.ret[1].id # id

\* C4 as stated: after delete(r), and until a later create with the same id,
\* get(r.id) is empty, no identity row of r remains, and get_by_oauth_account
\* on every (provider, account id) pair that was linked to r returns empty.
C4_DeleteThenEmpty ==
    [][/\ last'.op = "delete" =>
            LET id == last'.key
                after == [users |-> users', oauth |-> oauth']
            IN  /\ last'.outcome = "ok"
                /\ get(after, id, identitySupport) = {Returned(None)}
                /\ OwnedBy(oauth', id) = {}
                /\ \A o \in OwnedBy(oauth, id) :
                     get_by_oauth_account(after, o.oauth_name, o.account_id, identitySupport)
                        = {Returned(None)}
       /\ \A id \in UserIds :
            (/\ id \notin Ids(users)
             /\ ~(last'.op = "create" /\ last'.key = id)) =>
                /\ id \notin Ids(users')
                /\ OwnedBy(oauth', id) = {}]_vars

\* C4 as amended: after delete(r), and until a later create with the same id,
\* no lookup returns that user: get(r.id) is empty, no identity row of r
\* remains, and get_by_oauth_account on a pair that was linked to r never
\* returns r; it is empty when no row of another user carries the pair.
C4_DeleteHidesUser ==
    [][/\ last'.op = "delete" =>
            LET id == last'.key
                after == [users |-> users', oauth |-> oauth']
            IN  /\ last'.outcome = "ok"
                /\ NeverReturned(after, id, identitySupport)
                /\ OwnedBy(oauth', id) = {}
                /\ \A o \in OwnedBy(oauth, id) :
                     \A g \in get_by_oauth_account(after, o.oauth_name, o.account_id, identitySupport) :
                        /\ g.ret = None \/ g.ret[1].id # id
                        /\ OAuthMatches(Store, o.oauth_name, o.account_id)
                              \subseteq OwnedBy(oauth, id) => g = Returned(None)
       /\ \A id \in UserIds :
            (/\ id \notin Ids(users)
             /\ ~(last'.op = "create" /\ last'.key = id)) =>
                /\ id \notin Ids(users')
                /\ OwnedBy(oauth', id) = {}]_vars

C4_Witness ==
    /\ last.op = "delete"
    /\ last.outcome = "ok"
    /\ users # {}
    /\ \E o \in oauth : o.oauth_name = <<"g">>

\* C5: get, get_by_email and get_by_username called with a key that matches
\* no stored record return None, raise nothing and change nothing.
C5_LookupMissIsNone ==
    [][(\/ last'.op = "get" /\ last'.key \notin Ids(users)
        \/ /\ last'.op = "get_by_email"
           /\ \A u \in users : ~SameIgnoringCase(u.email, last'.key)
        \/ /\ last'.op = "get_by_username"
           /\ \A u \in users : ~SameIgnoringCase(u.username, last'.key)) =>
          /\ last'.outcome = "ok"
          /\ last'.ret = None
          /\ users' = users
          /\ oauth' = oauth]_vars

C5_Witness ==
    /\ last.op = "get_by_username"
    /\ last.key = <<"c", "y">>
    /\ last.ret = None
    /\ Cardinality(users) = 2

\* C6: no two distinct user records share an email or a username, so that a
\* get_by_email or get_by_username lookup never has more than one match.
C6_UniqueKeys ==
    /\ \A u, v \in users : u # v => u.email # v.email /\ u.username # v.username
    /\ \A e \in LookupEmails :
          Cardinality({ u \in users : SameIgnoringCase(u.email, e) }) <= 1
    /\ \A n \in LookupUsernames :
          Cardinality({ u \in users : SameIgnoringCase(u.username, n) }) <= 1

\* C7: get_by_email(e) returns a stored user whose email equals e when letter
\* case is ignored, whatever the casing of e, and None when every stored
\* email differs from e in more than case; get_by_username likewise.
C7_CaseInsensitiveLookup ==
    /\ last.op = "get_by_email" =>
          LET m == { u \in users : SameIgnoringCase(u.email, last.key) }
          IN  /\ last.outcome = "ok"
              /\ m = {} => last.ret = None
              /\ m # {} => /\ last.ret # None
                           /\ \E u \in m : last.ret[1] = from_tortoise_orm(Store, u, identitySupport)
    /\ last.op = "get_by_username" =>
          LET m == { u \in users : SameIgnoringCase(u.username, last.key) }
          IN  /\ last.outcome = "ok"
              /\ m = {} => last.ret = None
              /\ m # {} => /\ last.ret # None
                           /\ \E u \in m : last.ret[1] = from_tortoise_orm(Store, u, identitySupport)

C7_Witness ==
    /\ last.op = "get_by_username"
    /\ last.key = <<"A", "l">>
    /\ last.ret # None
    /\ last.ret[1].username = <<"a", "l">>

OAuthKeys == OAuthNames \X AccountIds

\* C8 as stated: after create(u) with a non-empty identity set on a store
\* built with identity support, get_by_oauth_account(p, a) returns u with all
\* its identities for every (p, a) of the set, and None for every (p, a) that
\* matches no stored identity exactly.
C8_CreateThenFindByAccount ==
    identitySupport =>
        /\ (last.op = "create" /\ last.outcome = "ok" /\ Truthy(last.ret[1].oauth_accounts)) =>
              \A a \in last.ret[1].oauth_accounts[1] :
                 \A g \in get_by_oauth_account(Store, a.oauth_name, a.account_id, identitySupport) :
                    /\ g.outcome = "ok"
                    /\ g.ret # None
                    /\ g.ret[1].id = last.key
                    /\ g.ret[1].oauth_accounts = last.ret[1].oauth_accounts
        /\ \A k \in OAuthKeys :
              (~ \E o \in oauth : o.oauth_name = k[1] /\ o.account_id = k[2]) =>
                  get_by_oauth_account(Store, k[1], k[2], identitySupport) = {Returned(None)}

\* C8 as amended: the same, for every (p, a) of the set that exactly one
\* stored identity row carries; when more than one row carries (p, a) the
\* lookup raises MultipleObjectsReturned.
C8_FindByUniqueAccount ==
    identitySupport =>
        /\ (last.op = "create" /\ last.outcome = "ok" /\ Truthy(last.ret[1].oauth_accounts)) =>
              \A a \in last.ret[1].oauth_accounts[1] :
                 LET n == Cardinality({ o \in oauth : /\ o.oauth_name = a.oauth_name
                                                      /\ o.account_id = a.account_id })
                 IN  \A g \in get_by_oauth_account(Store, a.oauth_name, a.account_id, identitySupport) :
                        /\ n = 1 => /\ g.outcome = "ok"
                                    /\ g.ret # None
                                    /\ g.ret[1].id = last.key
                                    /\ g.ret[1].oauth_accounts = last.ret[1].oauth_accounts
                        /\ n > 1 => g = Raised("MultipleObjectsReturned")
        /\ \A k \in OAuthKeys :
              (~ \E o \in oauth : o.oauth_name = k[1] /\ o.account_id = k[2]) =>
                  get_by_oauth_account(Store, k[1], k[2], identitySupport) = {Returned(None)}

C8_Witness ==
    /\ identitySupport
    /\ last.op = "create"
    /\ last.outcome = "ok"
    /\ Cardinality(users) = 2
    /\ Cardinality(OwnedBy(oauth, last.key)) = 2
    /\ \A a \in last.ret[1].oauth_accounts[1] :
          Cardinality(OAuthMatches(Store, a.oauth_name, a.account_id)) = 1

\* C9: a successful update(r) keeps the id of the row, gives every other
\* field of the row the value in r, leaves the rows and identity rows of all
\* other users alone, and, when r carries no identity set, leaves the
\* identity rows of r.id alone as well.
C9_UpdateFrame ==
    [][(last'.op = "update" /\ last'.outcome = "ok") =>
          LET r == last'.ret[1]
          IN  /\ r.id \in Ids(users)
              /\ { Scalars(u) : u \in { x \in users' : x.id = r.id } } = {Scalars(r)}
              /\ { u \in users' : u.id # r.id } = { u \in users : u.id # r.id }
              /\ { o \in oauth' : o.user_id # r.id } = { o \in oauth : o.user_id # r.id }
              /\ r.oauth_accounts = None =>
                    OwnedBy(oauth', r.id) = OwnedBy(oauth, r.id)]_vars

C9_Witness ==
    /\ last.op = "update"
    /\ last.outcome = "ok"
    /\ last.ret[1].oauth_accounts = None
    /\ Cardinality(users) = 2
    /\ \A id \in UserIds : OwnedBy(oauth, id) # {}

(***************************************************************************)
(* The concurrent specification: two calls for different ids run at once   *)
(* on the event loop, which switches between them at every await, that is  *)
(* between storage statements.  base is the store when the two started     *)
(* (the store itself while none runs), overlap tells that a statement of   *)
(* one ran while the other was under way.                                  *)
(***************************************************************************)
\* the calls run two at a time: one profile, no or one account per user
ConcInputs ==
    { user \in UserInputs :
        /\ user.hashed_password = "h1"
        /\ user.oauth_accounts = None \/ Cardinality(user.oauth_accounts[1]) = 1 }

Started(c) == c.pc # FirstPc(c.op)

Start ==
    /\ calls = NoCalls
    /\ \E op1, op2 \in WriteOps : \E user1, user2 \in ConcInputs :
          /\ user1.id = "U1"
          /\ user2.id = "U2"
          /\ op1 = "delete" => user1 = CHOOSE u \in ConcInputs : u.id = "U1"
          /\ op2 = "delete" => user2 = CHOOSE u \in ConcInputs : u.id = "U2"
          /\ calls' = <<NewCall(op1, user1), NewCall(op2, user2)>>
    /\ base' = Store
    /\ overlap' = FALSE
    /\ UNCHANGED <<users, oauth, identitySupport, last>>

Statement(i) ==
    /\ calls # NoCalls
    /\ calls[i].pc # "done"
    /\ LET n == Step(calls[i], Store, identitySupport)
           other == calls[3 - i]
       IN  /\ users' = n.st.users
           /\ oauth' = n.st.oauth
           /\ calls' = [calls EXCEPT ![i] = n.c]
           /\ overlap' = (overlap \/ (Started(other) /\ other.pc # "done"))
    /\ UNCHANGED <<identitySupport, last, base>>

Statement1 == Statement(1)

Statement2 == Statement(2)

\* both calls have returned or raised; the next two may start
Finish ==
    /\ calls # NoCalls
    /\ \A i \in 1..2 : calls[i].pc = "done"
    /\ calls' = NoCalls
    /\ base' = Store
    /\ overlap' = FALSE
    /\ UNCHANGED <<users, oauth, identitySupport, last>>

NextConc ==
    \/ Start
    \/ Statement1
    \/ Statement2
    \/ Finish

SpecConc == Init /\ [][NextConc]_vars

\* the two calls run one after the other from base: first, then second
Serial(first, second) ==
    LET a == Run(NewCall(first.op, first.user), base, identitySupport)
        b == Run(NewCall(second.op, second.user), a.st, identitySupport)
    IN  [st |-> b.st, first |-> a.c, second |-> b.c]

BothDone == calls # NoCalls /\ \A i \in 1..2 : calls[i].pc = "done"

SameAsSerial ==
    LET ab == Serial(calls[1], calls[2])
        ba == Serial(calls[2], calls[1])
    IN  /\ Store = ab.st
        /\ Store = ba.st
        /\ calls[1].outcome = ab.first.outcome
        /\ calls[1].outcome = ba.second.outcome
        /\ calls[2].outcome = ab.second.outcome
        /\ calls[2].outcome = ba.first.outcome

\* the unique keys a call writes or releases: those of its argument and those
\* of the rows its id has in st
KeysOf(c, st) ==
    LET writes == c.op # "delete"
        row == { u \in st.users : u.id = c.user.id }
    IN  [emails |-> { u.email : u \in row } \cup (IF writes THEN {c.user.email} ELSE {}),
         usernames |-> { u.username : u \in row }
                          \cup (IF writes THEN {c.user.username} ELSE {}),
         oauth_ids |-> { o.id : o \in OwnedBy(st.oauth, c.user.id) }
                          \cup (IF writes /\ c.user.oauth_accounts # None
                                THEN { a.id : a \in c.user.oauth_accounts[1] }
                                ELSE {})]

NoSharedKey ==
    LET k1 == KeysOf(calls[1], base)
        k2 == KeysOf(calls[2], base)
    IN  /\ k1.emails \cap k2.emails = {}
        /\ k1.usernames \cap k2.usernames = {}
        /\ k1.oauth_ids \cap k2.oauth_ids = {}

\* C10 as stated: two calls among create, update and delete for different
\* ids end, under every interleaving of their storage statements, with the
\* outcomes and the store that running them one after the other gives, in
\* either order.
C10_Independent == BothDone => SameAsSerial

\* C10 as amended: the same, for two calls that share no unique key: neither
\* the argument of one nor the stored rows of its id carry an email, a
\* username or an OAuth account id that the other's argument or rows carry.
C10_IndependentWithoutSharedKey == (BothDone /\ NoSharedKey) => SameAsSerial

C10_Witness ==
    /\ BothDone
    /\ NoSharedKey
    /\ overlap
    /\ calls[1].op = "update" /\ calls[1].outcome = "ok"
    /\ calls[2].op = "create" /\ calls[2].outcome = "ok"
    /\ OwnedBy(base.oauth, "U1") # {}
    /\ \A id \in UserIds : OwnedBy(oauth, id) # {}

====
